---- MODULE Spec2Model ----
(***************************************************************************)
(* Kerberos ticket handling of credentials-fetcher (auth/kerberos/src/     *)
(* krb.cpp): the gMSA ticket pipeline (get_gmsa_krb_ticket), the           *)
(* domainless user ticket (get_domainless_user_krb_ticket), lease deletion *)
(* (delete_krb_tickets) and the renewal pass                               *)
(* (renew_kerberos_tickets_domainless, renew_gmsa_ticket).                 *)
(*                                                                         *)
(* A std::string is a sequence of atoms: a single character, or a literal  *)
(* of the source kept whole.  Concatenation is \o.                         *)
(***************************************************************************)
EXTENDS Integers, Sequences, FiniteSets, TLC

VARIABLES
    \* ---- get_gmsa_krb_ticket (one call in flight; two password worlds)
    g_pc,           \* position in the function
    g_domain,       \* domain_name: the labels of the name (split on '.')
    g_account,      \* gmsa_account_name
    g_cc,           \* krb_cc_name
    g_fqdn_list,    \* fqdn_list
    g_env_base_dn,  \* env_base_dn
    g_gmsa_ou,      \* gmsa_ou
    g_idx,          \* position of the outer loop in fqdn_list (1-based)
    g_try,          \* i of the inner retry loop
    g_found,        \* found_valid_fqdn
    g_ldap,         \* ldap_search_result, per world: [first, second]
    g_runs,         \* the ldapsearch runs of the call: <<[dc, exit]>>
    g_pw,           \* the password bytes the directory holds, per world
    g_exec,         \* per world: the command strings handed to the shell
    g_log,          \* per world: the lines written to the logger and stderr
    g_stdin,        \* per world: the bytes written to the pipeline's stdin
    g_gbuf,         \* the g_base64_decode result buffer
    g_sbuf,         \* the OPENSSL_malloc copy
    g_blob,         \* per world: the bytes the OPENSSL_malloc copy holds
    g_ret,          \* the returned pair
    \* ---- get_domainless_user_krb_ticket
    d_pc,           \* position in the function
    d_username,     \* the bytes of the username string
    d_password,     \* the bytes of the password string
    d_domain,       \* domain_name
    d_kinit,        \* what my_kinit_main returned
    d_ret,          \* the returned pair
    d_freed,        \* the bytes the two strings held when they were destroyed
    \* ---- lease store, delete_krb_tickets, renewal pass
    parent_entries, \* the entries of the directory above krb_files_dir
    lease_dirs,     \* the lease directories under krb_files_dir
    meta,           \* lease directory -> its metadata files, each a ticket list
    ccache,         \* the cred-cache files on disk
    del_call,       \* the delete_krb_tickets call that ran last, if a call did:
                    \* what it saw and did
    deleted,        \* the leases a returned delete_krb_tickets was called for
    r_pc,           \* position of the renewal pass
    r_username,     \* the pass's username
    r_files,        \* metadatafiles still to read
    r_tickets,      \* krb_ticket_info_list still to go through
    r_seen,         \* the metadata files get_meta_data_file_paths returned
    r_work,         \* the tickets the pass called renew_gmsa_ticket for
    r_deleted,      \* deleted, as it was when the pass started
    r_ret,          \* renewed_krb_ticket_paths
    \* ---- a single call of a function: its arguments and what it returned
    p_in,           \* the arguments and the environment the call reads
    p_out,          \* what the call returned and did, <<>> before it
    \* ---- the callers of the renewal pass and of delete_krb_tickets
    failed,         \* the tickets whose last renew_gmsa_ticket returned no path
    pass_lock,      \* the lock of the renewal pass is held
    passes,         \* how many renewal passes are running
    tick_pending,   \* a tick came while a pass was running
    store_mutex     \* who holds the mutex of the lease store

gvars == <<g_pc, g_domain, g_account, g_cc, g_fqdn_list, g_env_base_dn,
           g_gmsa_ou, g_idx, g_try, g_found, g_ldap, g_runs, g_pw, g_exec,
           g_log, g_stdin, g_gbuf, g_sbuf, g_blob, g_ret>>
dvars == <<d_pc, d_username, d_password, d_domain, d_kinit, d_ret, d_freed>>
lvars == <<parent_entries, lease_dirs, meta, ccache, del_call, deleted,
           r_pc, r_username, r_files, r_tickets, r_seen, r_work, r_deleted, r_ret>>
pvars == <<p_in, p_out>>
avars == <<failed, pass_lock, passes, tick_pending, store_mutex>>
vars == <<gvars, dvars, lvars, pvars, avars>>

-----------------------------------------------------------------------------
(* Strings *)

\* (the grave accent is written "<grave>": SANY's lexer rejects it in a string)
invalid_characters ==
    {"&", "|", ";", ":", "$", "*", "?", "<", ">", "!", " ", "\\", ".", "]",
     "[", "+", "'", "<grave>", "~", "}", "{", "\"", ")", "("}

\* s holds a character of the denylist
HasInvalidCharacter(s) == \E i \in 1..Len(s) : s[i] \in invalid_characters

install_path_for_decode_exe == <<"/usr/sbin/credentials_fetcher_utf16_private.exe">>

\* std::toupper over a string, atom by atom
ToUpperChar(c) ==
    CASE c = "contoso" -> "CONTOSO" [] c = "com" -> "COM" [] OTHER -> c

ToUpper(s) == [i \in 1..Len(s) |-> ToUpperChar(s[i])]

RECURSIVE split_string(_, _)
\* Util::split_string: the pieces of s between occurrences of delim
split_string(s, delim) ==
    IF \A i \in 1..Len(s) : s[i] # delim THEN <<s>>
    ELSE LET k == CHOOSE i \in 1..Len(s) :
                      s[i] = delim /\ \A j \in 1..(i - 1) : s[j] # delim
         IN  <<SubSeq(s, 1, k - 1)>> \o
             (IF k = Len(s) THEN <<>> ELSE split_string(SubSeq(s, k + 1, Len(s)), delim))

RECURSIVE BaseDnOf(_)
\* base_dn += "DC=" + result + "," for every piece of the domain name, then
\* pop_back() removes the last comma
BaseDnOf(results) ==
    IF Len(results) = 0 THEN <<>>
    ELSE IF Len(results) = 1 THEN <<"DC=">> \o results[1]
    ELSE <<"DC=">> \o results[1] \o <<",">> \o BaseDnOf(Tail(results))

\* std::string::find of a one-atom needle: its position, 0 for npos
Find(s, atom) ==
    IF \E i \in 1..Len(s) : s[i] = atom
    THEN CHOOSE i \in 1..Len(s) : s[i] = atom /\ \A j \in 1..(i - 1) : s[j] # atom
    ELSE 0

-----------------------------------------------------------------------------
(* Bounds and input sets *)

\* the most domain controllers DNS discovery returns
MaxDCs == 2

NULL == <<"NULL">>

DomainNames == {<<>>, <<"contoso", ".", "com">>}
AccountNames == {<<>>, <<"webapp01">>, <<"web", ";", "id">>, <<"web", "'", "$", "(", "id", ")">>}
CcNames == {<<"/var/credentials_fetcher/krb_dir/krb5_cc">>, <<"/tmp/cc", "|", "sh">>}
\* the values of an ecs.config key or an environment variable, when set
ConfigDc == {<<>>, <<"dc0">>}
ConfigBaseDn == {<<>>, <<"CN=cfg,DC=contoso,DC=com">>}
EnvOu == {NULL, <<"OU=gmsa">>}
EnvBaseDn == {NULL, <<"CN=env,DC=contoso,DC=com">>}
SecretDn == {<<>>, <<"CN=dn,DC=contoso,DC=com">>}

DcName(i) == <<"dc" \o ToString(i)>>

\* gMSA password bytes, and the base64 text the directory returns for them
Passwords == {<<1, 2, 3>>, <<4, 5, 6>>}
Base64Of(bytes) == IF bytes = <<1, 2, 3>> THEN "AQID" ELSE "BAUG"
Worlds == {1, 2}

-----------------------------------------------------------------------------
(* get_gmsa_krb_ticket *)

\* what both password worlds share is written once and copied to each
Both(x) == [w \in Worlds |-> x]
AppendAll(f, xs) == [w \in Worlds |-> f[w] \o xs[w]]

\* the text Util::exec_shell_cmd returns for an ldapsearch run: the LDIF of the
\* entry, with or without the msDS-ManagedPassword attribute.  A run that
\* exits non-zero has printed nothing, or the entries it received before the
\* server ended the search with an error result (time or size limit).
LdapOutputKinds == {"attr", "no_attr", "bad_base64"}
LdapOutput(exit, kind, pw) ==
    IF exit # 0 /\ kind # "attr" THEN <<>>
    ELSE <<"#", " extended LDIF\n", "#", "\ndn: CN=webapp01\n">> \o
         (CASE kind = "attr" -> <<"msDS-ManagedPassword::", " ", Base64Of(pw), "\n">>
            [] kind = "bad_base64" -> <<"msDS-ManagedPassword::", " ", "=", "\n">>
            [] OTHER -> <<>>) \o
         <<"\n", "#", " search result\n">>

\* g_base64_decode: the bytes of the base64 groups of the text, other
\* characters skipped
RECURSIVE g_base64_decode(_)
g_base64_decode(text) ==
    IF Len(text) = 0 THEN <<>>
    ELSE (CASE Head(text) = "AQID" -> <<1, 2, 3>>
            [] Head(text) = "BAUG" -> <<4, 5, 6>>
            [] OTHER -> <<>>) \o g_base64_decode(Tail(text))

\* base64_decode(password, &base64_decode_len): the secure copy (NULL when
\* there is none), and what became of the two buffers
base64_decode(password, malloc_ok) ==
    LET result == g_base64_decode(password) IN
    IF password = <<>>
    THEN [ptr |-> NULL, len |-> 0, gbuf |-> "none", sbuf |-> "none"]
    ELSE IF Len(result) <= 0
    THEN [ptr |-> NULL, len |-> 0, gbuf |-> "abandoned_empty", sbuf |-> "none"]
    ELSE IF ~malloc_ok
    THEN [ptr |-> NULL, len |-> Len(result), gbuf |-> "freed_unscrubbed", sbuf |-> "none"]
    ELSE [ptr |-> result, len |-> Len(result), gbuf |-> "freed_scrubbed", sbuf |-> "live"]

\* the first piece of the '#'-split text that holds the attribute name, 0 if none
FirstWithPassword(results) ==
    IF \E k \in 1..Len(results) : Find(results[k], "msDS-ManagedPassword::") # 0
    THEN CHOOSE k \in 1..Len(results) :
             /\ Find(results[k], "msDS-ManagedPassword::") # 0
             /\ \A j \in 1..(k - 1) : Find(results[j], "msDS-ManagedPassword::") = 0
    ELSE 0

\* find_password(ldap_search_result): [len, ptr, gbuf, sbuf, log]
find_password(ldap_search_result, malloc_ok) ==
    LET results == split_string(ldap_search_result, "#")
        k == FirstWithPassword(results)
        found == Find(results[k], "msDS-ManagedPassword::") + 1
        password == SubSeq(results[k], found + 1, Len(results[k]))
        dec == base64_decode(password, malloc_ok)
    IN  IF k = 0
        THEN [len |-> 0, ptr |-> NULL, gbuf |-> "none", sbuf |-> "none", log |-> <<>>]
        ELSE IF dec.ptr = NULL
        THEN [len |-> 0, ptr |-> NULL, gbuf |-> dec.gbuf, sbuf |-> dec.sbuf,
              log |-> << <<"ERROR: base64 buffer is null">> >>]
        ELSE [len |-> dec.len, ptr |-> dec.ptr, gbuf |-> dec.gbuf, sbuf |-> dec.sbuf,
              log |-> <<>>]

\* the ldapsearch command line for one domain controller
LdapsearchCmd(fqdn, env_base_dn, account, gmsa_ou, base_dn) ==
    IF env_base_dn # <<>>
    THEN <<"ldapsearch -LLL -Y GSSAPI -H ldap://">> \o fqdn \o <<" -b ">> \o
         env_base_dn \o <<" msds-ManagedPassword">>
    ELSE <<"ldapsearch -H ldap://">> \o fqdn \o <<" -b 'CN=">> \o account \o
         gmsa_ou \o base_dn \o <<"'">> \o
         <<" -s sub  '(objectClass=msDs-GroupManagedServiceAccount)'  msDS-ManagedPassword">>

\* the decoder | kinit pipeline's command line
KinitCmd(cc, account, domain) ==
    <<"dotnet ">> \o install_path_for_decode_exe \o <<" | kinit ", " -c ">> \o cc \o
    <<" -V ">> \o <<"'">> \o account \o <<"$'", "@">> \o ToUpper(domain)

\* what the function logs around one ldapsearch run
LdapLog(first_try, cmd, exit, fqdn, output) ==
    (IF first_try THEN <<cmd, <<"INFO: ">> \o cmd, cmd>> ELSE <<>>) \o
    (IF exit # 0
     THEN << <<"ERROR: ldapsearch failed with FQDN = ">> \o fqdn,
             <<"ERROR: ldapsearch failed with FQDN = ">> \o fqdn,
             <<"ERROR: ldapsearch failed to get gMSA credentials: ">> \o output,
             <<"ERROR: ldapsearch failed to get gMSA credentials: ">> \o output >>
     ELSE << <<"INFO: ldapsearch succeeded with FQDN = ">> \o fqdn,
             <<"INFO: ldapsearch succeeded with FQDN = ">> \o fqdn >>)

\* the inner retry loop's bookkeeping after one run: a failure retries the
\* same controller once; the break on success leaves the inner loop only,
\* and the outer loop goes on to the next controller
AfterRun(idx, try, exit) ==
    IF exit # 0 /\ try = 0 THEN [idx |-> idx, try |-> 1]
    ELSE [idx |-> idx + 1, try |-> 0]

\* lines 618-650: the candidate list, or why there is none
RECURSIVE FqdnsOf(_, _)
FqdnsOf(i, resolved) ==
    IF i > MaxDCs THEN <<>>
    ELSE (IF i \in resolved THEN <<DcName(i)>> ELSE <<>>) \o FqdnsOf(i + 1, resolved)

Discover(fqdn, ecs_mode, ips_first, resolved) ==
    IF fqdn = <<>> /\ ~ecs_mode
    THEN IF ips_first # 0 THEN [status |-> "dns", list |-> <<>>]
         ELSE [status |-> "ok", list |-> FqdnsOf(1, resolved)]
    ELSE IF fqdn # <<>> THEN [status |-> "ok", list |-> <<fqdn>>]
    ELSE [status |-> "none", list |-> <<>>]

\* lines 657-678: gmsa_ou and env_base_dn
GmsaOu(env_ou) ==
    IF env_ou # NULL THEN <<",">> \o env_ou \o <<",">>
    ELSE <<",CN=Managed Service Accounts,">>

EnvBaseDnOf(cfg_base_dn, env_ou, env_base_dn, distinguished_name) ==
    IF distinguished_name # <<>>
    THEN IF Find(distinguished_name, "msds-ManagedPassword") = 0
         THEN distinguished_name \o <<" msds-ManagedPassword">>
         ELSE distinguished_name
    ELSE IF env_ou = NULL /\ env_base_dn # NULL THEN env_base_dn
    ELSE cfg_base_dn

SecretsManagerCmd(aws_sm_secret_name) ==
    <<"/usr/bin/aws", " secretsmanager get-secret-value --secret-id ">> \o
    aws_sm_secret_name \o <<" --query 'SecretString' --output text">>

GmsaIdle ==
    /\ g_pc = "idle" /\ g_domain = <<>> /\ g_account = <<>> /\ g_cc = <<>>
    /\ g_fqdn_list = <<>> /\ g_env_base_dn = <<>> /\ g_gmsa_ou = <<>>
    /\ g_idx = 1 /\ g_try = 0 /\ g_found = FALSE
    /\ g_ldap = Both([first |-> 0, second |-> <<>>])
    /\ g_runs = <<>> /\ g_pw = Both(<<>>)
    /\ g_exec = Both(<<>>) /\ g_log = Both(<<>>) /\ g_stdin = Both(<<>>)
    /\ g_gbuf = "none" /\ g_sbuf = "none" /\ g_blob = Both(NULL)
    /\ g_ret = <<0, <<>>>>

\* entry to the ldapsearch loop (lines 593-682)
GmsaCall(domain_name, account, cc, fqdn, ecs_mode, ips_first, resolved, cfg_base_dn, env_ou, env_base_dn, secret_name, dn, pws) ==
    LET disc == Discover(fqdn, ecs_mode, ips_first, resolved) IN
    /\ g_pc = "idle"
    /\ g_domain' = domain_name /\ g_account' = account /\ g_cc' = cc
    /\ g_pw' = pws
    /\ IF domain_name = <<>> \/ account = <<>>
       THEN /\ g_pc' = "done"
            /\ g_log' = AppendAll(g_log, Both(<< <<"ERROR: null args">> >>))
            /\ g_ret' = <<-1, <<"domain_name ">> \o domain_name \o
                              <<" or gmsa_account_name ">> \o account \o <<" is empty">> >>
            /\ UNCHANGED <<g_fqdn_list, g_env_base_dn, g_gmsa_ou, g_exec>>
       ELSE IF disc.status = "dns"
       THEN /\ g_pc' = "done"
            /\ g_log' = AppendAll(g_log,
                   Both(<< <<"ERROR: Cannot resolve domain IPs for ">> \o domain_name,
                           <<"ERROR: Cannot resolve domain IPs for ">> \o domain_name >>))
            /\ g_ret' = <<-1, <<"ERROR: Cannot resolve domain IPs for ">> \o domain_name>>
            /\ UNCHANGED <<g_fqdn_list, g_env_base_dn, g_gmsa_ou, g_exec>>
       ELSE IF disc.status = "none"
       THEN /\ g_pc' = "done"
            /\ g_ret' = <<-1, <<"ERROR: FQDN of DC is not available">> >>
            /\ UNCHANGED <<g_fqdn_list, g_env_base_dn, g_gmsa_ou, g_exec, g_log>>
       ELSE /\ g_pc' = "loop"
            /\ g_fqdn_list' = disc.list
            /\ g_gmsa_ou' = GmsaOu(env_ou)
            /\ g_env_base_dn' = EnvBaseDnOf(cfg_base_dn, env_ou, env_base_dn, dn)
            /\ g_exec' = AppendAll(g_exec, Both(<<SecretsManagerCmd(secret_name)>>))
            /\ UNCHANGED <<g_log, g_ret>>
    /\ UNCHANGED <<g_idx, g_try, g_found, g_ldap, g_runs, g_stdin, g_gbuf, g_sbuf, g_blob>>
    /\ UNCHANGED <<dvars, lvars, pvars, avars>>

\* one pass of the inner loop body: exec_shell_cmd(cmd) and its logging
\* (lines 683-725)
GmsaLdapsearch(exit, kind) ==
    LET fqdn == g_fqdn_list[g_idx]
        cmd == LdapsearchCmd(fqdn, g_env_base_dn, g_account, g_gmsa_ou,
                             BaseDnOf(split_string(g_domain, ".")))
        out == [w \in Worlds |-> LdapOutput(exit, kind, g_pw[w])]
        nxt == AfterRun(g_idx, g_try, exit)
    IN  /\ g_pc = "loop"
        /\ g_idx <= Len(g_fqdn_list)
        /\ g_exec' = AppendAll(g_exec, Both(<<cmd>>))
        /\ g_ldap' = [w \in Worlds |-> [first |-> exit, second |-> out[w]]]
        /\ g_log' = AppendAll(g_log,
               [w \in Worlds |-> LdapLog(g_try = 0, cmd, exit, fqdn, out[w])])
        /\ g_runs' = Append(g_runs, [dc |-> g_idx, exit |-> exit])
        /\ g_found' = (g_found \/ exit = 0)
        /\ g_idx' = nxt.idx /\ g_try' = nxt.try
        /\ UNCHANGED <<g_pc, g_domain, g_account, g_cc, g_fqdn_list, g_env_base_dn,
                       g_gmsa_ou, g_pw, g_stdin, g_gbuf, g_sbuf, g_blob, g_ret>>
        /\ UNCHANGED <<dvars, lvars, pvars, avars>>

\* after the loop (lines 727-732)
GmsaAfterLoop ==
    /\ g_pc = "loop"
    /\ g_idx > Len(g_fqdn_list)
    /\ g_fqdn_list' = <<>>
    /\ IF ~g_found
       THEN g_pc' = "done" /\ g_ret' = <<-1, <<>>>>
       ELSE g_pc' = "find" /\ UNCHANGED g_ret
    /\ UNCHANGED <<g_domain, g_account, g_cc, g_env_base_dn, g_gmsa_ou, g_idx, g_try,
                   g_found, g_ldap, g_runs, g_pw, g_exec, g_log, g_stdin, g_gbuf,
                   g_sbuf, g_blob>>
    /\ UNCHANGED <<dvars, lvars, pvars, avars>>

\* find_password and the check of its result (lines 734-740)
GmsaFindPassword(malloc_ok) ==
    LET res == [w \in Worlds |-> find_password(g_ldap[w].second, malloc_ok)]
        missing == res[1].len = 0 \/ res[1].ptr = NULL
    IN  /\ g_pc = "find"
        /\ g_gbuf' = res[1].gbuf /\ g_sbuf' = res[1].sbuf
        /\ g_blob' = [w \in Worlds |-> res[w].ptr]
        /\ g_log' = AppendAll(g_log,
               [w \in Worlds |-> res[w].log \o
                   (IF missing THEN << <<"ERROR: Password not found">> >> ELSE <<>>)])
        /\ IF missing
           THEN g_pc' = "done" /\ g_ret' = <<-1, <<>>>>
           ELSE g_pc' = "kinit" /\ UNCHANGED g_ret
        /\ UNCHANGED <<g_domain, g_account, g_cc, g_fqdn_list, g_env_base_dn, g_gmsa_ou,
                       g_idx, g_try, g_found, g_ldap, g_runs, g_pw, g_exec, g_stdin>>
        /\ UNCHANGED <<dvars, lvars, pvars, avars>>

\* blob->current_password: the password field of the decoded blob
CurrentPassword(blob) == blob

\* OPENSSL_cleanse over the buffer
Cleansed(blob) == [i \in 1..Len(blob) |-> 0]

\* the decoder | kinit pipeline and the release of the buffer (lines 742-775)
GmsaKinit(popen_ok, error_code) ==
    LET kinit_cmd == KinitCmd(g_cc, g_account, g_domain) IN
    /\ g_pc = "kinit"
    /\ g_pc' = "done"
    /\ g_domain' = ToUpper(g_domain)
    /\ g_sbuf' = "freed_scrubbed"
    /\ g_blob' = [w \in Worlds |-> Cleansed(g_blob[w])]
    /\ IF ~popen_ok
       THEN /\ g_log' = AppendAll(g_log,
                   Both(<< <<"INFO:">> \o kinit_cmd, <<"kinit failed">>,
                           <<"ERROR: kinit failed">>, <<"ERROR: kinit failed">> >>))
            /\ g_ret' = <<-1, <<"kinit failed">> >>
            /\ UNCHANGED <<g_exec, g_stdin>>
       ELSE /\ g_exec' = AppendAll(g_exec, Both(<<kinit_cmd>>))
            /\ g_stdin' = [w \in Worlds |-> CurrentPassword(g_blob[w])]
            /\ g_log' = AppendAll(g_log,
                   Both(<< <<"INFO:">> \o kinit_cmd,
                           <<"INFO: kinit return value = ", ToString(error_code)>> >>))
            /\ g_ret' = <<error_code, g_cc>>
    /\ UNCHANGED <<g_account, g_cc, g_fqdn_list, g_env_base_dn, g_gmsa_ou, g_idx, g_try,
                   g_found, g_ldap, g_runs, g_pw, g_gbuf>>
    /\ UNCHANGED <<dvars, lvars, pvars, avars>>

ExitCodes == {0, 1}

GmsaNext ==
    \/ /\ g_pc = "idle"
       /\ \E domain_name \in DomainNames, account \in AccountNames, cc \in CcNames,
             fqdn \in ConfigDc, ecs_mode \in BOOLEAN, ips_first \in {0, -1},
             resolved \in SUBSET (1..MaxDCs), cfg_base_dn \in ConfigBaseDn,
             env_ou \in EnvOu, env_base_dn \in EnvBaseDn, dn \in SecretDn,
             pws \in [Worlds -> Passwords] :
               GmsaCall(domain_name, account, cc, fqdn, ecs_mode, ips_first, resolved,
                        cfg_base_dn, env_ou, env_base_dn, <<"aws/gmsa">>, dn, pws)
    \/ \E exit \in ExitCodes, kind \in LdapOutputKinds : GmsaLdapsearch(exit, kind)
    \/ GmsaAfterLoop
    \/ \E malloc_ok \in BOOLEAN : GmsaFindPassword(malloc_ok)
    \/ \E popen_ok \in BOOLEAN, error_code \in ExitCodes : GmsaKinit(popen_ok, error_code)

-----------------------------------------------------------------------------
(* get_domainless_user_krb_ticket *)

Usernames == {<<"admin1">>, <<"admin2">>}
UserPasswords == {<<"S3cret">>, <<"Pa55word">>, <<"p", "w">>}
KinitReturns == {0, 1, -1}

\* Util::clearString: every character of the string overwritten
clearString(str) == [i \in 1..Len(str) |-> "x"]

\* the string holds none of the bytes it was given
Scrubbed(str) == \A i \in 1..Len(str) : str[i] = "x"

DomainlessIdle ==
    /\ d_pc = "idle" /\ d_username = <<>> /\ d_password = <<>> /\ d_domain = <<>>
    /\ d_kinit = 0 /\ d_ret = <<0, <<>>>> /\ d_freed = <<>>

DomainlessCall(domain_name, username, password) ==
    /\ d_pc = "idle"
    /\ d_pc' = "which_kinit"
    /\ d_domain' = domain_name /\ d_username' = username /\ d_password' = password
    /\ UNCHANGED <<d_kinit, d_ret, d_freed>>
    /\ UNCHANGED <<gvars, lvars, pvars, avars>>

\* "which kinit" and the permission check of what it printed (lines 358-365);
\* the return destroys the two strings as they are
DomainlessWhichKinit(present) ==
    /\ d_pc = "which_kinit"
    /\ IF ~present
       THEN /\ d_pc' = "returned"
            /\ d_ret' = <<-1, <<"ERROR: kinit not found">> >>
            /\ d_freed' = <<d_username, d_password>>
       ELSE d_pc' = "which_ldapsearch" /\ UNCHANGED <<d_ret, d_freed>>
    /\ UNCHANGED <<d_username, d_password, d_domain, d_kinit>>
    /\ UNCHANGED <<gvars, lvars, pvars, avars>>

\* "which ldapsearch" (lines 367-374)
DomainlessWhichLdapsearch(present) ==
    /\ d_pc = "which_ldapsearch"
    /\ IF ~present
       THEN /\ d_pc' = "returned"
            /\ d_ret' = <<-1, <<"ERROR: ldapsearch not found">> >>
            /\ d_freed' = <<d_username, d_password>>
       ELSE d_pc' = "kinit" /\ UNCHANGED <<d_ret, d_freed>>
    /\ UNCHANGED <<d_username, d_password, d_domain, d_kinit>>
    /\ UNCHANGED <<gvars, lvars, pvars, avars>>

\* the principal and my_kinit_main (lines 376-386)
DomainlessKinit(ret) ==
    /\ d_pc = "kinit"
    /\ d_pc' = "clear_username"
    /\ d_domain' = ToUpper(d_domain)
    /\ d_username' = d_username \o <<"@">> \o ToUpper(d_domain)
    /\ d_kinit' = ret
    /\ UNCHANGED <<d_password, d_ret, d_freed>>
    /\ UNCHANGED <<gvars, lvars, pvars, avars>>

\* Util::clearString( username ) (line 387)
DomainlessClearUsername ==
    /\ d_pc = "clear_username"
    /\ d_pc' = "clear_password"
    /\ d_username' = clearString(d_username)
    /\ UNCHANGED <<d_password, d_domain, d_kinit, d_ret, d_freed>>
    /\ UNCHANGED <<gvars, lvars, pvars, avars>>

\* Util::clearString( password ) (line 388)
DomainlessClearPassword ==
    /\ d_pc = "clear_password"
    /\ d_pc' = "return"
    /\ d_password' = clearString(d_password)
    /\ UNCHANGED <<d_username, d_domain, d_kinit, d_ret, d_freed>>
    /\ UNCHANGED <<gvars, lvars, pvars, avars>>

\* lines 390-392
DomainlessReturn ==
    /\ d_pc = "return"
    /\ d_pc' = "returned"
    /\ d_ret' = <<d_kinit, <<>>>>
    /\ d_freed' = <<d_username, d_password>>
    /\ UNCHANGED <<d_username, d_password, d_domain, d_kinit>>
    /\ UNCHANGED <<gvars, lvars, pvars, avars>>

DomainlessNext ==
    \/ \E domain_name \in DomainNames, username \in Usernames, password \in UserPasswords :
          DomainlessCall(domain_name, username, password)
    \/ \E present \in BOOLEAN : DomainlessWhichKinit(present)
    \/ \E present \in BOOLEAN : DomainlessWhichLdapsearch(present)
    \/ \E ret \in KinitReturns : DomainlessKinit(ret)
    \/ DomainlessClearUsername
    \/ DomainlessClearPassword
    \/ DomainlessReturn

-----------------------------------------------------------------------------
(* The lease store: <krb_files_dir>/<lease>/<account>_metadata *)

\* the most tickets in one metadata file
MaxTickets == 2
\* how many metadata files a lease directory holds
FileCounts == {1, 2}

Leases == {"lease1", "lease2"}
DomainlessUsers == {<<>>, <<"admin1">>}
LeaseIds == {<<>>, <<"lease1">>, <<"lease2">>, <<".", ".">>, <<"lease1", ";", "id">>}

\* one entry of a metadata file
TicketInfo(l, f, k, user) ==
    [krb_file_path |-> <<l, f, k>>, domainless_user |-> user]

MetaFile(l, f, n, user) ==
    [name |-> <<l, f>>, tickets |-> [k \in 1..n |-> TicketInfo(l, f, k, user)]]

RECURSIVE Flatten(_)
Flatten(seqs) == IF seqs = <<>> THEN <<>> ELSE Head(seqs) \o Flatten(Tail(seqs))

Range(f) == {f[i] : i \in DOMAIN f}

\* the cred-cache paths the metadata files of a directory name
PathsOf(files) == {t.krb_file_path : t \in Range(Flatten([i \in DOMAIN files |-> files[i].tickets]))}

NoDelete ==
    [called |-> FALSE, again |-> FALSE, lease_id |-> <<>>, dir |-> "none",
     before |-> <<>>, runs |-> <<>>, ret |-> <<>>]

LeaseInit ==
    /\ parent_entries = {"krbdir", "logging"}
    /\ lease_dirs = Leases
    /\ \E layout \in [Leases -> [files : FileCounts, user : DomainlessUsers]],
          n \in 1..MaxTickets :
          meta = [l \in Leases |->
                    [f \in 1..layout[l].files |-> MetaFile(l, f, n, layout[l].user)]]
    /\ ccache = UNION {PathsOf(meta[l]) : l \in Leases}
    /\ del_call = NoDelete
    /\ deleted = {}
    /\ r_pc = "idle" /\ r_username = <<>> /\ r_files = <<>> /\ r_tickets = <<>>
    /\ r_seen = {} /\ r_work = {} /\ r_deleted = {} /\ r_ret = <<>>

\* opendir( krb_files_dir + "/" + lease_id ): the directory it opens
OpenDir(lease_id, entries, dirs) ==
    IF "krbdir" \notin entries THEN "none"
    ELSE IF lease_id = <<".", ".">> THEN "parent"
    ELSE IF Len(lease_id) = 1 /\ lease_id[1] \in dirs THEN lease_id[1]
    ELSE "none"

\* (a loop that gives up at the first kdestroy that fails)
RECURSIVE KdestroyRunsAbort(_, _)
KdestroyRunsAbort(tickets, failing) ==
    IF tickets = <<>> THEN <<>>
    ELSE IF Head(tickets).krb_file_path \in failing
    THEN <<[path |-> Head(tickets).krb_file_path, exit |-> 1]>>
    ELSE <<[path |-> Head(tickets).krb_file_path, exit |-> 0]>> \o
         KdestroyRunsAbort(Tail(tickets), failing)

\* the kdestroy of every ticket read, in the order read (lines 1119-1139)
RECURSIVE KdestroyRuns(_, _)
KdestroyRuns(tickets, failing) ==
    IF tickets = <<>> THEN <<>>
    ELSE <<[path |-> Head(tickets).krb_file_path,
            exit |-> IF Head(tickets).krb_file_path \in failing THEN 1 ELSE 0]>> \o
         KdestroyRuns(Tail(tickets), failing)

\* delete_krb_ticket_paths: push_back of krb_file_path after a kdestroy that exited 0
RECURSIVE DeletedPaths(_)
DeletedPaths(runs) ==
    IF runs = <<>> THEN <<>>
    ELSE (IF Head(runs).exit = 0 THEN <<Head(runs).path>> ELSE <<>>) \o
         DeletedPaths(Tail(runs))

\* (a call that leaves the directory in place)
RemoveAllKeep(dir, dirs) == dirs

\* std::filesystem::remove_all( krb_tickets_path ): the lease directories left
RemoveAll(dir, dirs) ==
    IF dir = "parent" THEN {} ELSE dirs \ {dir}

\* the directories left when the call returns: a kdestroy that fails is
\* logged and the loop goes on, and remove_all follows the loop (lines 1110-1147)
LeaseDirsAfterAbort(dir, dirs, runs) ==
    IF \E i \in DOMAIN runs : runs[i].exit # 0 THEN dirs ELSE RemoveAll(dir, dirs)

LeaseDirsAfter(dir, dirs, runs) == RemoveAll(dir, dirs)

Orders(n) == {o \in [1..n -> 1..n] : \A i, j \in 1..n : o[i] = o[j] => i = j}

\* delete_krb_tickets( krb_files_dir, lease_id ); readdir returns the metadata
\* files in the order `order`, and kdestroy fails for the caches in `failing`
DeleteKrbTickets(lease_id, order, failing) ==
    LET dir == OpenDir(lease_id, parent_entries, lease_dirs)
        files == IF dir \in Leases THEN [i \in DOMAIN meta[dir] |-> meta[dir][order[i]]]
                 ELSE <<>>
        runs == KdestroyRuns(Flatten([i \in DOMAIN files |-> files[i].tickets]), failing)
        left == LeaseDirsAfter(dir, lease_dirs, runs)
        again == del_call.called /\ del_call.lease_id = lease_id
    IN  /\ r_pc \in {"idle", "pass"}
        /\ deleted' = deleted \cup {l \in Leases : lease_id = <<l>>}
        /\ IF lease_id = <<>> \/ dir = "none"
           THEN /\ del_call' = [called |-> TRUE, again |-> again, lease_id |-> lease_id,
                                dir |-> "none", before |-> <<>>, runs |-> <<>>,
                                ret |-> <<>>]
                /\ UNCHANGED <<parent_entries, lease_dirs, meta, ccache>>
           ELSE /\ del_call' = [called |-> TRUE, again |-> again, lease_id |-> lease_id,
                                dir |-> dir, before |-> files, runs |-> runs,
                                ret |-> DeletedPaths(runs)]
                /\ lease_dirs' = left
                /\ meta' = [l \in left |-> meta[l]]
                /\ ccache' = {c \in ccache \ Range(DeletedPaths(runs)) : c[1] \in left}
                /\ parent_entries' = IF dir = "parent" THEN {} ELSE parent_entries
        /\ UNCHANGED <<r_pc, r_username, r_files, r_tickets, r_seen, r_work, r_deleted,
                       r_ret>>
        /\ UNCHANGED <<gvars, dvars, pvars>>

\* get_meta_data_file_paths( krbdir ): the metadata files under the directory
\* (the directories are walked in the order of LeaseOrder)
LeaseOrder == <<"lease1", "lease2">>

RECURSIVE MetaDataFilePathsFrom(_, _, _)
MetaDataFilePathsFrom(i, dirs, m) ==
    IF i > Len(LeaseOrder) THEN <<>>
    ELSE (IF LeaseOrder[i] \in dirs
          THEN [k \in DOMAIN m[LeaseOrder[i]] |-> m[LeaseOrder[i]][k].name]
          ELSE <<>>) \o MetaDataFilePathsFrom(i + 1, dirs, m)

get_meta_data_file_paths(dirs, m) == MetaDataFilePathsFrom(1, dirs, m)

\* read_meta_data_json( file_path ): the tickets of the file, none when it is gone
read_meta_data_json(file_path, dirs, m) ==
    IF file_path[1] \in dirs /\ file_path[2] \in DOMAIN m[file_path[1]]
    THEN m[file_path[1]][file_path[2]].tickets
    ELSE <<>>

\* renew_gmsa_ticket: up to num_retries calls of get_gmsa_krb_ticket, the
\* i-th returning results[i]; between them, for a domainless ticket of this
\* user, get_domainless_user_krb_ticket
RECURSIVE RenewLoop(_, _, _, _)
RenewLoop(i, krb_ticket, username, results) ==
    IF i >= 2 THEN [calls |-> 0, refreshes |-> 0, path |-> <<>>]
    ELSE IF results[i + 1] # 0
    THEN IF krb_ticket.domainless_user # <<>> /\ krb_ticket.domainless_user = username
         THEN LET rest == RenewLoop(i + 1, krb_ticket, username, results) IN
              [calls |-> 1 + rest.calls, refreshes |-> 1 + rest.refreshes,
               path |-> rest.path]
         ELSE [calls |-> 1, refreshes |-> 0, path |-> <<>>]
    ELSE [calls |-> 1, refreshes |-> 0, path |-> krb_ticket.krb_file_path]

renew_gmsa_ticket(krb_ticket, username, results) == RenewLoop(0, krb_ticket, username, results)

\* the start of renew_kerberos_tickets_domainless (lines 961-963)
RenewStart(username) ==
    /\ r_pc = "idle"
    /\ "krbdir" \in parent_entries
    /\ r_pc' = "pass"
    /\ r_username' = username
    /\ r_files' = get_meta_data_file_paths(lease_dirs, meta)
    /\ r_seen' = Range(get_meta_data_file_paths(lease_dirs, meta))
    /\ r_tickets' = <<>> /\ r_work' = {} /\ r_ret' = <<>>
    /\ r_deleted' = deleted
    /\ del_call' = NoDelete
    /\ UNCHANGED <<parent_entries, lease_dirs, meta, ccache, deleted>>
    /\ UNCHANGED <<gvars, dvars, pvars>>

\* the next metadata file is read (lines 966-969)
RenewReadFile ==
    /\ r_pc = "pass" /\ r_tickets = <<>> /\ r_files # <<>>
    /\ r_tickets' = read_meta_data_json(Head(r_files), lease_dirs, meta)
    /\ r_files' = Tail(r_files)
    /\ del_call' = NoDelete
    /\ UNCHANGED <<parent_entries, lease_dirs, meta, ccache, deleted,
                   r_pc, r_username, r_seen, r_work, r_deleted, r_ret>>
    /\ UNCHANGED <<gvars, dvars, pvars>>

\* (a loop body that drops the metadata files of a lease whose renewal
\* returned no path)
RenewTicketForgets(results) ==
    LET krb_ticket == Head(r_tickets)
        mine == r_username # <<>> /\ r_username = krb_ticket.domainless_user
        res == renew_gmsa_ticket(krb_ticket, r_username, results)
    IN  /\ r_pc = "pass" /\ r_tickets # <<>>
        /\ r_tickets' = Tail(r_tickets)
        /\ del_call' = NoDelete
        /\ IF mine
           THEN /\ r_work' = r_work \cup {krb_ticket.krb_file_path}
                /\ r_ret' = IF r_ret # <<>> THEN Append(r_ret, res.path) ELSE r_ret
                /\ ccache' = IF res.path # <<>> /\ krb_ticket.krb_file_path[1] \in lease_dirs
                             THEN ccache \cup {krb_ticket.krb_file_path} ELSE ccache
                /\ meta' = IF res.path = <<>>
                           THEN [meta EXCEPT ![krb_ticket.krb_file_path[1]] = <<>>]
                           ELSE meta
           ELSE UNCHANGED <<r_work, r_ret, ccache, meta>>
        /\ UNCHANGED <<parent_entries, lease_dirs, deleted,
                       r_pc, r_username, r_files, r_seen, r_deleted>>
        /\ UNCHANGED <<gvars, dvars, pvars>>

\* (a loop body that leaves out the tickets whose last renewal failed)
RenewTicketSkipsFailed(results) ==
    LET krb_ticket == Head(r_tickets)
        mine == /\ r_username # <<>> /\ r_username = krb_ticket.domainless_user
                /\ krb_ticket.krb_file_path \notin failed
        res == renew_gmsa_ticket(krb_ticket, r_username, results)
    IN  /\ r_pc = "pass" /\ r_tickets # <<>>
        /\ r_tickets' = Tail(r_tickets)
        /\ del_call' = NoDelete
        /\ IF mine
           THEN /\ r_work' = r_work \cup {krb_ticket.krb_file_path}
                /\ r_ret' = IF r_ret # <<>> THEN Append(r_ret, res.path) ELSE r_ret
                /\ ccache' = IF res.path # <<>> /\ krb_ticket.krb_file_path[1] \in lease_dirs
                             THEN ccache \cup {krb_ticket.krb_file_path} ELSE ccache
           ELSE UNCHANGED <<r_work, r_ret, ccache>>
        /\ UNCHANGED <<parent_entries, lease_dirs, meta, deleted,
                       r_pc, r_username, r_files, r_seen, r_deleted>>
        /\ UNCHANGED <<gvars, dvars, pvars>>

\* one ticket of the file (lines 973-986); a get_gmsa_krb_ticket that returns
\* 0 has written the cred cache, which needs the lease directory
RenewTicket(results) ==
    LET krb_ticket == Head(r_tickets)
        mine == r_username # <<>> /\ r_username = krb_ticket.domainless_user
        res == renew_gmsa_ticket(krb_ticket, r_username, results)
    IN  /\ r_pc = "pass" /\ r_tickets # <<>>
        /\ r_tickets' = Tail(r_tickets)
        /\ del_call' = NoDelete
        /\ IF mine
           THEN /\ r_work' = r_work \cup {krb_ticket.krb_file_path}
                /\ r_ret' = IF r_ret # <<>> THEN Append(r_ret, res.path) ELSE r_ret
                /\ ccache' = IF res.path # <<>> /\ krb_ticket.krb_file_path[1] \in lease_dirs
                             THEN ccache \cup {krb_ticket.krb_file_path} ELSE ccache
           ELSE UNCHANGED <<r_work, r_ret, ccache>>
        /\ UNCHANGED <<parent_entries, lease_dirs, meta, deleted,
                       r_pc, r_username, r_files, r_seen, r_deleted>>
        /\ UNCHANGED <<gvars, dvars, pvars>>

\* the return (line 989)
RenewReturn ==
    /\ r_pc = "pass" /\ r_tickets = <<>> /\ r_files = <<>>
    /\ r_pc' = "idle"
    /\ del_call' = NoDelete
    /\ UNCHANGED <<parent_entries, lease_dirs, meta, ccache, deleted,
                   r_username, r_files, r_tickets, r_seen, r_work, r_deleted, r_ret>>
    /\ UNCHANGED <<gvars, dvars, pvars>>

\* the metadata files of the directory a lease id opens
FilesAt(lease_id) ==
    LET dir == OpenDir(lease_id, parent_entries, lease_dirs) IN
    IF dir \in Leases THEN meta[dir] ELSE <<>>

\* a delete_krb_tickets call, for every order of the directory and every
\* set of failing kdestroy runs
DeleteNext ==
    \E lease_id \in LeaseIds :
       \E order \in Orders(Len(FilesAt(lease_id))),
          failing \in SUBSET PathsOf(FilesAt(lease_id)) :
             DeleteKrbTickets(lease_id, order, failing) /\ UNCHANGED avars

\* beside a renewal pass the kdestroy runs of a call fail all or none
Next ==
    \/ \E lease_id \in LeaseIds :
          \E order \in Orders(Len(FilesAt(lease_id))),
             failing \in {{}, PathsOf(FilesAt(lease_id))} :
                DeleteKrbTickets(lease_id, order, failing) /\ UNCHANGED avars
    \/ \E username \in {<<>>} \cup Usernames : RenewStart(username) /\ UNCHANGED avars
    \/ RenewReadFile /\ UNCHANGED avars
    \/ \E results \in [1..2 -> ExitCodes] : RenewTicket(results) /\ UNCHANGED avars
    \/ RenewReturn /\ UNCHANGED avars

\* no single call is being looked at
CallIdle == p_in = <<>> /\ p_out = <<>>

\* no caller is modelled: nothing is recorded and no lock is ever taken
CallersIdle ==
    /\ failed = {} /\ pass_lock = FALSE /\ passes = 0
    /\ tick_pending = FALSE /\ store_mutex = "free"

Init == GmsaIdle /\ DomainlessIdle /\ LeaseInit /\ CallIdle /\ CallersIdle

LeaseIdle ==
    /\ parent_entries = {} /\ lease_dirs = {} /\ meta = <<>> /\ ccache = {}
    /\ del_call = NoDelete
    /\ deleted = {}
    /\ r_pc = "idle" /\ r_username = <<>> /\ r_files = <<>> /\ r_tickets = <<>>
    /\ r_seen = {} /\ r_work = {} /\ r_deleted = {} /\ r_ret = <<>>

GmsaInit == GmsaIdle /\ DomainlessIdle /\ LeaseIdle /\ CallIdle /\ CallersIdle
DomainlessInit == GmsaIdle /\ DomainlessIdle /\ LeaseIdle /\ CallIdle /\ CallersIdle

\* the lease store under deletions and renewal passes
Spec == Init /\ [][Next]_vars
\* the lease store under deletions alone
SpecDelete == Init /\ [][DeleteNext]_vars
\* one call of get_gmsa_krb_ticket
SpecGmsa == GmsaInit /\ [][GmsaNext]_vars
\* one call of get_domainless_user_krb_ticket
SpecDomainless == DomainlessInit /\ [][DomainlessNext]_vars

-----------------------------------------------------------------------------
(* Single calls.  p_in holds the arguments of the call and what it reads from *)
(* its environment, p_out what it returned.                                   *)

\* the state of the functions modelled above, which a single call leaves alone
svars == <<gvars, dvars, lvars>>
OthersIdle == GmsaIdle /\ DomainlessIdle /\ LeaseIdle /\ CallersIdle

-----------------------------------------------------------------------------
(* is_ticket_ready_for_renewal, get_ticket_expiration *)

\* the renewal threshold in hours
RENEW_TICKET_HOURS == 4

\* Times are whole hours on one clock.  A klist timestamp is its text: the
\* time it names and whether the year is printed with four digits or two.
SystemTimes == {100}
KlistTimes == {99, 103, 104, 105, 272}
YearDigits == {4, 2}

\* what klist printed for a cred cache: "renewable" has the krbtgt line and a
\* "renew until" line, "not_renewable" has no "renew until" line, "no_krbtgt"
\* has a "renew until" line but no line the expires_regex matches
KlistKinds == {"renewable", "not_renewable", "no_krbtgt"}

KlistOutputs ==
    {k \in [exit : ExitCodes, kind : KlistKinds, year_digits : YearDigits,
            expires : KlistTimes, renew_until : KlistTimes] :
        k.expires <= k.renew_until}

\* get_ticket_expiration( klist_ticket_info ): the date and time in the
\* "Expires" column of the first krbtgt line, "" when no line matches
get_ticket_expiration(klist_ticket_info) ==
    IF klist_ticket_info.kind = "no_krbtgt" THEN <<>>
    ELSE <<[year_digits |-> klist_ticket_info.year_digits,
            hour |-> klist_ticket_info.expires]>>

\* strptime( "%m/%d/%Y %T" ) and mktime: %Y reads the digits it finds as the
\* year itself, so a two-digit year 23 is the year 23, two thousand years
\* (17532000 hours) before 2023; a tm_isdst left set moves the result an
\* hour back
next_renewal_time(renew_until, tm_isdst) ==
    (IF renew_until.year_digits = 4 THEN renew_until.hour
     ELSE renew_until.hour - 17532000) - tm_isdst

\* is_ticket_ready_for_renewal( krb_ticket_info ): the values it can return.
\* klist is the result of the klist command, tm_isdst what the uninitialised
\* field of struct tm holds.  With no line for the regex, sscanf leaves
\* renewal_date and renewal_time unwritten and the result is either value.
is_ticket_ready_for_renewal(klist, current_time, tm_isdst) ==
    LET renewal_date_time == get_ticket_expiration(klist) IN
    IF klist.exit # 0 THEN {FALSE}
    ELSE IF klist.kind = "not_renewable" THEN {FALSE}
    ELSE IF renewal_date_time = <<>> THEN BOOLEAN
    ELSE {next_renewal_time(renewal_date_time[1], tm_isdst) - current_time
              <= RENEW_TICKET_HOURS}

ReadyInit ==
    /\ OthersIdle
    /\ p_in \in [klist : KlistOutputs, current_time : SystemTimes, tm_isdst : {0, 1}]
    /\ p_out = <<>>

ReadyCall ==
    /\ p_out = <<>>
    /\ \E ready \in is_ticket_ready_for_renewal(p_in.klist, p_in.current_time,
                                                p_in.tm_isdst) :
          p_out' = <<[ready |-> ready]>>
    /\ UNCHANGED <<p_in, svars, avars>>

\* one call of is_ticket_ready_for_renewal
SpecReady == ReadyInit /\ [][ReadyCall]_vars

-----------------------------------------------------------------------------
(* renew_gmsa_ticket, one call *)

\* the calls renew_gmsa_ticket makes, in order: "gmsa" is get_gmsa_krb_ticket,
\* "tgt" is get_domainless_user_krb_ticket.  The i-th get_gmsa_krb_ticket
\* returns results[i]; the refresh of the user ticket sits in the failure
\* branch of every turn of the loop, the last one included.
RECURSIVE RenewOps(_, _, _, _)
RenewOps(i, krb_ticket, username, results) ==
    IF i >= 2 THEN <<>>
    ELSE IF results[i + 1] # 0
    THEN IF krb_ticket.domainless_user # <<>> /\ krb_ticket.domainless_user = username
         THEN <<"gmsa", "tgt">> \o RenewOps(i + 1, krb_ticket, username, results)
         ELSE <<"gmsa">>
    ELSE <<"gmsa">>

\* what get_gmsa_krb_ticket can return
GmsaResults == {0, 1, -1}

RenewTicketInit ==
    /\ OthersIdle
    /\ p_in \in [krb_ticket : {TicketInfo("lease1", 1, 1, u) : u \in {<<>>} \cup Usernames},
                 username : {<<>>} \cup Usernames,
                 results : [1..2 -> GmsaResults]]
    /\ p_out = <<>>

RenewTicketCall ==
    /\ p_out = <<>>
    /\ p_out' = <<[ops |-> RenewOps(0, p_in.krb_ticket, p_in.username, p_in.results),
                   path |-> renew_gmsa_ticket(p_in.krb_ticket, p_in.username,
                                              p_in.results).path]>>
    /\ UNCHANGED <<p_in, svars, avars>>

\* one call of renew_gmsa_ticket
SpecRenewTicket == RenewTicketInit /\ [][RenewTicketCall]_vars

-----------------------------------------------------------------------------
(* The cred caches of the lease store as klist shows them *)

\* the system time of a renewal pass
PassTime == CHOOSE t \in SystemTimes : TRUE

\* klist of a cred cache of the store: the first ticket of a metadata file
\* expires within the threshold, the others long after it
KlistOf(krb_file_path) ==
    [exit |-> 0, kind |-> "renewable", year_digits |-> 4,
     expires |-> IF krb_file_path[3] = 1 THEN PassTime + RENEW_TICKET_HOURS - 1
                 ELSE PassTime + RENEW_TICKET_HOURS + 168,
     renew_until |-> PassTime + RENEW_TICKET_HOURS + 168]

\* is_ticket_ready_for_renewal says the ticket is due
DueForRenewal(krb_file_path) ==
    is_ticket_ready_for_renewal(KlistOf(krb_file_path), PassTime, 0) = {TRUE}

-----------------------------------------------------------------------------
(* Renewal passes over time: which tickets stand failed *)

\* a step of the pass's loop body with its outcome recorded: a ticket the
\* pass called renew_gmsa_ticket for is failed when the call returned no
\* path and is valid again when it returned one
RenewTicketRecorded(results) ==
    LET krb_ticket == Head(r_tickets)
        res == renew_gmsa_ticket(krb_ticket, r_username, results)
    IN  /\ RenewTicket(results)
        /\ failed' = IF krb_ticket.krb_file_path \notin r_work' THEN failed
                     ELSE IF res.path = <<>>
                     THEN failed \cup {krb_ticket.krb_file_path}
                     ELSE failed \ {krb_ticket.krb_file_path}
        /\ UNCHANGED <<pass_lock, passes, tick_pending, store_mutex>>

\* a delete_krb_tickets call; the tickets of a removed directory are gone
DeleteRecorded(lease_id, order, failing) ==
    /\ DeleteKrbTickets(lease_id, order, failing)
    /\ failed' = {t \in failed : t[1] \in lease_dirs'}
    /\ UNCHANGED <<pass_lock, passes, tick_pending, store_mutex>>

\* a step of the pass in which renew_gmsa_ticket is called and returns no path
RenewFails ==
    \E results \in [1..2 -> ExitCodes] :
       /\ r_tickets # <<>>
       /\ RenewTicketRecorded(results)
       /\ Head(r_tickets).krb_file_path \in (r_work' \ r_work) \cap failed'

RenewalNext ==
    \/ \E lease_id \in LeaseIds :
          \E order \in Orders(Len(FilesAt(lease_id))),
             failing \in {{}, PathsOf(FilesAt(lease_id))} :
                DeleteRecorded(lease_id, order, failing)
    \/ \E username \in {<<>>} \cup Usernames : RenewStart(username) /\ UNCHANGED avars
    \/ RenewReadFile /\ UNCHANGED avars
    \/ \E results \in [1..2 -> ExitCodes] : RenewTicketRecorded(results)
    \/ RenewReturn /\ UNCHANGED avars

\* every cred cache path a metadata file of the store can name
AllTickets == {<<l, f, k>> : l \in Leases, f \in FileCounts, k \in 1..MaxTickets}

\* passes are scheduled fairly for every user, a pass that has started runs
\* to its end, and from some time on LDAP and kinit succeed
RenewalFairness ==
    /\ \A username \in Usernames : SF_vars(RenewStart(username) /\ UNCHANGED avars)
    /\ WF_vars(RenewReadFile /\ UNCHANGED avars)
    /\ WF_vars(\E results \in [1..2 -> ExitCodes] : RenewTicketRecorded(results))
    /\ WF_vars(RenewReturn /\ UNCHANGED avars)
    /\ <>[][~RenewFails]_vars

\* a store whose lease directories hold one metadata file each
RenewalInit == Init /\ \A l \in Leases : Len(meta[l]) = 1

\* the lease store under deletions and renewal passes, outcomes recorded
SpecRenewal == RenewalInit /\ [][RenewalNext]_vars
\* the same under fair scheduling
SpecRenewalFair == SpecRenewal /\ RenewalFairness

-----------------------------------------------------------------------------
(* get_machine_principal, get_machine_krb_ticket *)

\* the host name size limit (NetBIOS)
HOST_NAME_LENGTH_LIMIT == 15

\* a host label of n characters, its last one unlike the others
HostLabel(n) == [i \in 1..n |-> IF i = n THEN "z" ELSE "h"]

\* what gethostname can give: labels around the limit, bare or followed by
\* a domain
Hostnames ==
    {HostLabel(n) \o suffix :
        n \in {3, HOST_NAME_LENGTH_LIMIT, HOST_NAME_LENGTH_LIMIT + 1, HOST_NAME_LENGTH_LIMIT + 2},
        suffix \in {<<>>, <<".", "l", "a", "n">>, <<".", "c", ".", "d">>}}

RealmNames == {<<"C", "O", "N", "T", "O", "S", "O", ".", "C", "O", "M">>, <<"A", "D">>}

\* a pair<int, std::string> of a Util:: check that failed
UtilFailure == [first |-> -1, second |-> <<"ERROR">>]
UtilSuccess == [first |-> 0, second |-> <<>>]

\* the host as get_machine_principal sees it: gethostname, Util::get_realm_name
\* and Util::check_domain_name
Hosts ==
    [status : {0, -1}, hostname : Hostnames,
     realm_name_result : {UtilFailure} \cup {[first |-> 0, second |-> r] : r \in RealmNames},
     domain_name_result : {UtilFailure, UtilSuccess}]

\* s.substr( 0, s.find( '.' ) ): the whole string when it holds no '.'
BeforeFirstDot(s) == IF Find(s, ".") = 0 THEN s ELSE SubSeq(s, 1, Find(s, ".") - 1)

\* s.substr( 0, n )
Substr0(s, n) == IF Len(s) <= n THEN s ELSE SubSeq(s, 1, n)

\* get_machine_principal: the pair returned and whether the warning was logged
get_machine_principal(host) ==
    LET host_name == BeforeFirstDot(host.hostname) IN
    IF host.status # 0 THEN [first |-> host.status, second |-> <<>>, warned |-> FALSE]
    ELSE IF host.realm_name_result.first # 0
    THEN [first |-> host.realm_name_result.first,
          second |-> host.realm_name_result.second, warned |-> FALSE]
    ELSE IF host.domain_name_result.first # 0
    THEN [first |-> host.domain_name_result.first,
          second |-> host.domain_name_result.second, warned |-> FALSE]
    ELSE [first |-> 0,
          second |-> <<"'">> \o Substr0(host_name, HOST_NAME_LENGTH_LIMIT)
                     \o <<"$", "@", "'">> \o host.realm_name_result.second,
          warned |-> Len(host_name) > HOST_NAME_LENGTH_LIMIT]

PrincipalInit ==
    /\ OthersIdle
    /\ p_in \in [host : Hosts]
    /\ p_out = <<>>

PrincipalCall ==
    /\ p_out = <<>>
    /\ p_out' = <<get_machine_principal(p_in.host)>>
    /\ UNCHANGED <<p_in, svars, avars>>

\* one call of get_machine_principal
SpecPrincipal == PrincipalInit /\ [][PrincipalCall]_vars

\* the checks of get_machine_krb_ticket before the principal is computed:
\* is_hostname_cmd_present (twice), is_realm_cmd_present,
\* is_kinit_cmd_present, is_ldapsearch_cmd_present, is_decode_exe_present
PreflightChecks == 6

\* the result of the first check that failed, else of the last check
RECURSIVE Preflight(_, _)
Preflight(checks, i) ==
    IF checks[i].first # 0 \/ i = PreflightChecks THEN [at |-> i, result |-> checks[i]]
    ELSE Preflight(checks, i + 1)

\* the runs of the checks that differ: all pass, or one of them fails
PreflightRuns ==
    {[i \in 1..PreflightChecks |-> IF i = k THEN UtilFailure ELSE UtilSuccess] :
        k \in 0..PreflightChecks}

\* get_machine_krb_ticket: what it returned, the principal it computed and
\* the arguments of its Util::execute_kinit_in_domain_joined_case calls
get_machine_krb_ticket(checks, host, kinit_result) ==
    LET pre == Preflight(checks, 1)
        result == pre.result
        machine_principal == get_machine_principal(host)
    IN  IF result.first # 0
        THEN [ret |-> result, principal |-> <<>>, kinit |-> <<>>]
        ELSE [ret |-> kinit_result, principal |-> <<machine_principal>>,
              kinit |-> <<machine_principal.second>>]

MachineTicketInit ==
    /\ OthersIdle
    /\ p_in \in [checks : PreflightRuns, host : Hosts, kinit_result : {UtilFailure, UtilSuccess}]
    /\ p_out = <<>>

MachineTicketCall ==
    /\ p_out = <<>>
    /\ p_out' = <<get_machine_krb_ticket(p_in.checks, p_in.host, p_in.kinit_result)>>
    /\ UNCHANGED <<p_in, svars, avars>>

\* one call of get_machine_krb_ticket
SpecMachineTicket == MachineTicketInit /\ [][MachineTicketCall]_vars

-----------------------------------------------------------------------------
(* The base DN of the ldapsearch command (lines 609-615, 657-698) *)

\* the argument of -b in the command: env_base_dn when it is not empty, else
\* CN=<account><gmsa_ou><base_dn>
LdapsearchBase(env_base_dn, account, gmsa_ou, base_dn) ==
    IF env_base_dn # <<>> THEN env_base_dn
    ELSE <<"CN=">> \o account \o gmsa_ou \o base_dn

BaseDnInit ==
    /\ OthersIdle
    /\ p_in \in [domain_name : DomainNames \ {<<>>}, account : AccountNames \ {<<>>},
                 fqdn : {DcName(i) : i \in 1..2},
                 cfg_base_dn : ConfigBaseDn, env_ou : EnvOu, env_base_dn : EnvBaseDn,
                 distinguished_name : SecretDn]
    /\ p_out = <<>>

\* the command get_gmsa_krb_ticket builds for a controller
BaseDnCall ==
    LET base_dn == BaseDnOf(split_string(p_in.domain_name, "."))
        gmsa_ou == GmsaOu(p_in.env_ou)
        env_base_dn == EnvBaseDnOf(p_in.cfg_base_dn, p_in.env_ou, p_in.env_base_dn,
                                   p_in.distinguished_name)
    IN  /\ p_out = <<>>
        /\ p_out' = <<[cmd |-> LdapsearchCmd(p_in.fqdn, env_base_dn, p_in.account,
                                             gmsa_ou, base_dn),
                       base |-> LdapsearchBase(env_base_dn, p_in.account, gmsa_ou, base_dn)]>>
        /\ UNCHANGED <<p_in, svars, avars>>

\* the ldapsearch command of one get_gmsa_krb_ticket call
SpecBaseDn == BaseDnInit /\ [][BaseDnCall]_vars

-----------------------------------------------------------------------------
(* get_fqdn_from_domain_ip and the candidate list (lines 114-156, 623-642) *)

\* the most IPs DNS gives for the domain, and the most names a reverse
\* lookup of one IP gives
MaxIps == 2
MaxFqdns == 2

\* std::tolower over a string, atom by atom
ToLowerChar(c) ==
    CASE c = "CONTOSO" -> "contoso" [] c = "COM" -> "com" [] OTHER -> c

ToLower(s) == [i \in 1..Len(s) |-> ToLowerChar(s[i])]

\* std::string::find( needle ) != npos
Contains(s, needle) ==
    \E i \in 1..(Len(s) - Len(needle) + 1) : SubSeq(s, i, i + Len(needle) - 1) = needle

\* the j-th line of the reverse lookup of the i-th IP: a name of the domain in
\* lower or in upper case, a name of another domain, or an empty line
FqdnLine(i, j, kind) ==
    CASE kind = "lower" -> <<"dc" \o ToString(i) \o ToString(j), ".", "contoso", ".", "com", ".">>
      [] kind = "upper" -> <<"DC" \o ToString(i) \o ToString(j), ".", "CONTOSO", ".", "COM", ".">>
      [] kind = "other" -> <<"ip" \o ToString(i) \o ToString(j), ".", "compute", ".", "internal", ".">>
      [] OTHER -> <<>>

FqdnKinds == {"lower", "upper", "other", "empty"}

\* Util::get_FQDNs of the i-th IP, split on '\n'
ReverseLookups(i) ==
    UNION {{[j \in 1..n |-> FqdnLine(i, j, kinds[j])] : kinds \in [1..n -> FqdnKinds]} :
              n \in 0..MaxFqdns}

\* get_fqdn_from_domain_ip: every path of the loop body returns, so only
\* the first line is looked at
get_fqdn_from_domain_ip(list_of_dc_names, domain_name) ==
    IF list_of_dc_names = <<>> THEN [first |-> 1, second |-> <<>>]
    ELSE LET line == list_of_dc_names[1]
             fqdn_str == SubSeq(line, 1, Len(line) - 1)
         IN  IF Len(line) = 0 THEN [first |-> 1, second |-> <<>>]
             ELSE IF fqdn_str # <<>> /\ Contains(fqdn_str, domain_name)
             THEN [first |-> 0, second |-> fqdn_str]
             ELSE IF fqdn_str # <<>> /\ Contains(fqdn_str, ToLower(domain_name))
             THEN [first |-> 0, second |-> fqdn_str]
             ELSE [first |-> 1, second |-> <<>>]

RECURSIVE FqdnList(_, _)
\* the loop over domain_ips.second (lines 634-641)
FqdnList(lookups, domain_name) ==
    IF lookups = <<>> THEN <<>>
    ELSE LET fqdn_result == get_fqdn_from_domain_ip(Head(lookups), domain_name) IN
         (IF fqdn_result.first = 0 THEN <<fqdn_result.second>> ELSE <<>>)
         \o FqdnList(Tail(lookups), domain_name)

FqdnListInit ==
    /\ OthersIdle
    /\ \E n \in 1..MaxIps :
          p_in \in [domain_name : {<<"contoso", ".", "com">>, <<"CONTOSO", ".", "COM">>},
                    lookups : {l \in [1..n -> UNION {ReverseLookups(i) : i \in 1..n}] :
                                  \A i \in 1..n : l[i] \in ReverseLookups(i)}]
    /\ p_out = <<>>

FqdnListCall ==
    /\ p_out = <<>>
    /\ p_out' = <<[fqdn_list |-> FqdnList(p_in.lookups, p_in.domain_name)]>>
    /\ UNCHANGED <<p_in, svars, avars>>

\* the candidate list of one get_gmsa_krb_ticket call without a configured
\* domain controller
SpecFqdnList == FqdnListInit /\ [][FqdnListCall]_vars

-----------------------------------------------------------------------------
(* The callers: the renewal ticker and the lease store's mutex *)

\* the most renewal passes the ticker can have running at once
MaxPasses == 2

\* (a lock that every tick gets)
TryLockAlways(lock) == TRUE

\* the non-reentrant lock of the renewal pass can be taken
TryLock(lock) == ~lock

\* the mutex of the lease store can be taken
MutexFree(mutex) == mutex = "free"

\* a tick of the renewal ticker that gets the lock: a pass starts
TickStart(username) ==
    /\ TryLock(pass_lock)
    /\ passes < MaxPasses
    /\ pass_lock' = TRUE
    /\ passes' = passes + 1
    /\ IF passes = 0 THEN RenewStart(username) ELSE UNCHANGED <<svars, pvars>>
    /\ UNCHANGED <<failed, tick_pending, store_mutex>>

\* a tick while a pass holds the lock: it is coalesced, no pass starts
TickCoalesced ==
    /\ ~TryLock(pass_lock)
    /\ tick_pending' = TRUE
    /\ UNCHANGED <<svars, pvars, failed, pass_lock, passes, store_mutex>>

\* the pass reads the next metadata file under the mutex and keeps the mutex
\* while it works on the tickets of that file
LockedReadFile ==
    /\ MutexFree(store_mutex)
    /\ RenewReadFile
    /\ store_mutex' = IF r_tickets' = <<>> THEN "free" ELSE "pass"
    /\ UNCHANGED <<failed, pass_lock, passes, tick_pending>>

\* one ticket of the file; the mutex is given back after the last one
LockedRenewTicket(results) ==
    /\ store_mutex = "pass"
    /\ RenewTicket(results)
    /\ store_mutex' = IF r_tickets' = <<>> THEN "free" ELSE "pass"
    /\ UNCHANGED <<failed, pass_lock, passes, tick_pending>>

\* the pass ends and gives the lock back
LockedReturn ==
    /\ RenewReturn
    /\ pass_lock' = FALSE
    /\ passes' = passes - 1
    /\ tick_pending' = FALSE
    /\ UNCHANGED <<failed, store_mutex>>

\* delete_krb_tickets takes the mutex
LockedDeleteAcquire ==
    /\ MutexFree(store_mutex)
    /\ store_mutex' = "delete"
    /\ UNCHANGED <<svars, pvars, failed, pass_lock, passes, tick_pending>>

\* delete_krb_tickets runs under the mutex and gives it back
LockedDelete(lease_id, order, failing) ==
    /\ store_mutex = "delete"
    /\ DeleteKrbTickets(lease_id, order, failing)
    /\ store_mutex' = "free"
    /\ UNCHANGED <<failed, pass_lock, passes, tick_pending>>

LockedNext ==
    \/ \E username \in {<<>>} \cup Usernames : TickStart(username)
    \/ TickCoalesced
    \/ LockedReadFile
    \/ \E results \in [1..2 -> ExitCodes] : LockedRenewTicket(results)
    \/ LockedReturn
    \/ LockedDeleteAcquire
    \/ \E lease_id \in LeaseIds :
          \E order \in Orders(Len(FilesAt(lease_id))),
             failing \in {{}, PathsOf(FilesAt(lease_id))} :
                LockedDelete(lease_id, order, failing)

\* the lease store under the ticker and concurrent deletes
SpecLocked == RenewalInit /\ [][LockedNext]_vars

-----------------------------------------------------------------------------
(* retrieve_variable_from_ecs_config (lines 1161-1203) *)

\* the most lines /etc/ecs/ecs.config holds
MaxLines == 3

\* the keys the function answers for
ENV_CF_GMSA_BASE_DN == "CF_GMSA_BASE_DN"
ENV_CF_GMSA_SECRET_NAME == "CF_GMSA_SECRET_NAME"
ENV_CF_DOMAIN_CONTROLLER == "CF_DOMAIN_CONTROLLER"

\* the lines of the file: the three keys (one with blanks around '='), a key
\* the function does not know, a line without '=', a line with two of them,
\* an empty line
ConfigLines ==
    {<<ENV_CF_DOMAIN_CONTROLLER, "=", "dc0">>,
     <<ENV_CF_GMSA_SECRET_NAME, " ", "=", " ", "secret">>,
     <<ENV_CF_GMSA_BASE_DN, "=", "OU">>,
     <<"ECS_CLUSTER", "=", "c1">>,
     <<"garbage">>,
     <<ENV_CF_GMSA_BASE_DN, "=", "CN", "=", "cfg">>,
     <<>>}

ConfigFiles == UNION {[1..n -> ConfigLines] : n \in 0..MaxLines}

VariableNames ==
    {<<ENV_CF_GMSA_BASE_DN>>, <<ENV_CF_GMSA_SECRET_NAME>>, <<ENV_CF_DOMAIN_CONTROLLER>>,
     <<"ECS_CLUSTER">>}

RECURSIVE rtrim(_)
\* Util::rtrim: the blanks at the end are taken off
rtrim(s) == IF s # <<>> /\ s[Len(s)] = " " THEN rtrim(SubSeq(s, 1, Len(s) - 1)) ELSE s

RECURSIVE ltrim(_)
\* Util::ltrim: the blanks at the start are taken off
ltrim(s) == IF s # <<>> /\ s[1] = " " THEN ltrim(Tail(s)) ELSE s

\* Util::split_string( line, '=' ) of a line read by getline: an empty line
\* gives no piece
SplitLine(line) == IF line = <<>> THEN <<>> ELSE split_string(line, "=")

RECURSIVE retrieve_variable_from_ecs_config(_, _)
\* the loop over the lines still to read: the first line that is not two
\* pieces ends the read with "", the first line of the asked key with its value
retrieve_variable_from_ecs_config(config_file, ecs_variable_name) ==
    IF config_file = <<>> THEN <<>>
    ELSE LET results == SplitLine(Head(config_file)) IN
         IF Len(results) # 2 THEN <<>>
         ELSE LET key == rtrim(results[1])
                  value == ltrim(results[2])
              IN  IF /\ key \in {<<ENV_CF_GMSA_BASE_DN>>, <<ENV_CF_GMSA_SECRET_NAME>>,
                                 <<ENV_CF_DOMAIN_CONTROLLER>>}
                     /\ ecs_variable_name = key
                  THEN value
                  ELSE retrieve_variable_from_ecs_config(Tail(config_file), ecs_variable_name)

EcsConfigInit ==
    /\ OthersIdle
    /\ p_in \in [config_file : ConfigFiles, ecs_variable_name : VariableNames]
    /\ p_out = <<>>

EcsConfigCall ==
    /\ p_out = <<>>
    /\ p_out' = <<[value |-> retrieve_variable_from_ecs_config(p_in.config_file,
                                                               p_in.ecs_variable_name)]>>
    /\ UNCHANGED <<p_in, svars, avars>>

\* one call of retrieve_variable_from_ecs_config
SpecEcsConfig == EcsConfigInit /\ [][EcsConfigCall]_vars

-----------------------------------------------------------------------------
(* is_ticket_ready_for_renewal on one cred cache, klist printing its years
   with four digits and with two *)

ReadyPairInit ==
    /\ OthersIdle
    /\ p_in \in [klist : {k \in KlistOutputs : k.year_digits = 4},
                 current_time : SystemTimes,
                 tm_isdst : [YearDigits -> {0, 1}]]
    /\ p_out = <<>>

\* a call for a year format not called for yet, klist printing the cred
\* cache's times in that format
ReadyPairCall(year_digits) ==
    /\ \A i \in 1..Len(p_out) : p_out[i].year_digits # year_digits
    /\ \E ready \in is_ticket_ready_for_renewal([p_in.klist EXCEPT !.year_digits = year_digits],
                                                p_in.current_time,
                                                p_in.tm_isdst[year_digits]) :
          p_out' = Append(p_out, [year_digits |-> year_digits, ready |-> ready])
    /\ UNCHANGED <<p_in, svars, avars>>

\* is_ticket_ready_for_renewal called once for each year format
SpecReadyPair == ReadyPairInit /\ [][\E year_digits \in YearDigits : ReadyPairCall(year_digits)]_vars

-----------------------------------------------------------------------------
(* The bytes get_gmsa_krb_ticket reads from the decoded blob (lines 734-775) *)

\* the size of the current_password field
GMSA_PASSWORD_SIZE == 256

\* where current_password can stand in blob_t: at its start, or after the
\* 16 bytes of the header of MSDS-MANAGEDPASSWORD_BLOB
PasswordOffsets == {0, 16}

\* base64_decode_len: what find_password returns as .first
DecodedLens == {0, 1, 16, 255, 256, 257, 271, 272, 273, 1024}

\* lines 734-775 for a decoded blob of base64_decode_len bytes: the pair
\* returned, whether the pipeline was spawned, and the bytes of the buffer
\* fwrite reads, counted from 0
PasswordWrite(base64_decode_len, offset, popen_ok, error_code) ==
    IF base64_decode_len = 0
    THEN [first |-> -1, spawned |-> FALSE, read |-> {}]
    ELSE IF ~popen_ok
    THEN [first |-> -1, spawned |-> FALSE, read |-> {}]
    ELSE [first |-> error_code, spawned |-> TRUE,
          read |-> offset..(offset + GMSA_PASSWORD_SIZE - 1)]

PasswordWriteInit ==
    /\ OthersIdle
    /\ p_in \in [base64_decode_len : DecodedLens, offset : PasswordOffsets,
                 popen_ok : BOOLEAN, error_code : ExitCodes]
    /\ p_out = <<>>

PasswordWriteCall ==
    /\ p_out = <<>>
    /\ p_out' = <<PasswordWrite(p_in.base64_decode_len, p_in.offset, p_in.popen_ok,
                                p_in.error_code)>>
    /\ UNCHANGED <<p_in, svars, avars>>

\* the end of one get_gmsa_krb_ticket call, from find_password's result on
SpecPasswordWrite == PasswordWriteInit /\ [][PasswordWriteCall]_vars

-----------------------------------------------------------------------------
(* Claims *)

IsLdapsearch(cmd) ==
    cmd # <<>> /\ cmd[1] \in {"ldapsearch -LLL -Y GSSAPI -H ldap://", "ldapsearch -H ldap://"}
IsKinitPipeline(cmd) == cmd # <<>> /\ cmd[1] = "dotnet "

\* C1: once an ldapsearch of the call has exited 0, the call runs no further
\* ldapsearch: every run but the last one exited non-zero.
C1_NoLdapsearchAfterSuccess ==
    \A i \in 1..(Len(g_runs) - 1) : g_runs[i].exit # 0

\* C2: the controllers are queried in discovery order, each at most twice and
\* the second time only after its first run failed, and a later controller is
\* queried only after every earlier one has failed twice.
C2_LaterDcOnlyAfterTwoFailures ==
    /\ \A i \in 1..(Len(g_runs) - 1) : g_runs[i].dc <= g_runs[i + 1].dc
    /\ \A d \in 1..MaxDCs :
          LET of_d == {i \in DOMAIN g_runs : g_runs[i].dc = d} IN
          /\ Cardinality(of_d) <= 2
          /\ \A i, j \in of_d : i < j => g_runs[i].exit # 0
    /\ \A j \in DOMAIN g_runs : \A d \in 1..(g_runs[j].dc - 1) :
          LET before == {i \in 1..(j - 1) : g_runs[i].dc = d} IN
          Cardinality(before) = 2 /\ \A i \in before : g_runs[i].exit # 0

\* C3: a delete_krb_tickets call whose lease id holds a denylisted character
\* runs no kdestroy and removes no directory.
C3_DenylistedLeaseIdRejected ==
    (del_call.called /\ HasInvalidCharacter(del_call.lease_id)) =>
        (del_call.runs = <<>> /\ del_call.dir = "none")

\* C4: when the account name or the cred-cache path holds a denylisted
\* character, the call spawns no ldapsearch and no decoder | kinit pipeline,
\* and it returns a failure.
C4_DenylistedNameNotExecuted ==
    (HasInvalidCharacter(g_account) \/ HasInvalidCharacter(g_cc)) =>
        /\ \A i \in DOMAIN g_exec[1] :
              ~IsLdapsearch(g_exec[1][i]) /\ ~IsKinitPipeline(g_exec[1][i])
        /\ g_pc = "done" => g_ret[1] # 0

\* C5: two runs of the call that differ in the password bytes alone hand the
\* same command strings to the shell and write the same log lines; the
\* password reaches the pipeline's stdin only.
C5_PasswordOnlyOnStdin ==
    /\ g_exec[1] = g_exec[2]
    /\ g_log[1] = g_log[2]

\* C6: no buffer that held decoded password bytes is freed unscrubbed, and
\* none is left alive when the call has returned.
C6_BuffersScrubbedBeforeFree ==
    /\ g_gbuf # "freed_unscrubbed"
    /\ g_sbuf # "freed_unscrubbed"
    /\ g_pc = "done" => g_sbuf # "live"

\* C7: when get_domainless_user_krb_ticket has returned, by whatever path,
\* the username and password strings it held were overwritten before they
\* were destroyed.
C7_StringsScrubbedOnReturn ==
    d_pc = "returned" => (Scrubbed(d_freed[1]) /\ Scrubbed(d_freed[2]))

\* the tickets a delete_krb_tickets call read, in the order it read them
TicketsSeen == Flatten([i \in DOMAIN del_call.before |-> del_call.before[i].tickets])

SucceededRun(r) == r.exit = 0

Disk == <<parent_entries, lease_dirs, meta, ccache>>

C12_DueByRenewUntil ==
    (p_out # <<>> /\ p_in.klist.exit = 0 /\ p_in.klist.kind = "renewable") =>
        (p_out[1].ready <=>
            (p_in.klist.renew_until - p_in.current_time <= RENEW_TICKET_HOURS))

\* C13: renew_gmsa_ticket calls get_gmsa_krb_ticket at most twice.  When the
\* first call fails and the ticket's domainless_user is non-empty and equal
\* to the username, it refreshes the user ticket once and retries once;
\* otherwise the first call is followed by no refresh and no retry.
C13_OneRefreshOneRetry ==
    p_out # <<>> =>
        LET matches == /\ p_in.krb_ticket.domainless_user # <<>>
                       /\ p_in.krb_ticket.domainless_user = p_in.username
        IN  IF p_in.results[1] # 0 /\ matches
            THEN p_out[1].ops = <<"gmsa", "tgt", "gmsa">>
            ELSE p_out[1].ops = <<"gmsa">>

\* C14: a renewal pass calls renew_gmsa_ticket (and so ldapsearch and kinit)
\* only for tickets that is_ticket_ready_for_renewal classifies as due.
C14_OnlyDueTicketsReissued ==
    \A t \in r_work : DueForRenewal(t)

\* C15: a renewal pass never creates, modifies or deletes a metadata file,
\* whether its renewals succeed or fail: every step of a pass leaves the
\* metadata files and the directories that hold them as they were.
C15_PassLeavesMetadata ==
    [][<<r_pc, r_files, r_tickets>>' # <<r_pc, r_files, r_tickets>>
         => /\ meta' = meta
            /\ lease_dirs' = lease_dirs
            /\ parent_entries' = parent_entries]_vars

\* a pass has ended in which a renewal failed and another one succeeded, all
\* metadata files still in place
C15_Witness ==
    /\ r_pc = "idle"
    /\ r_work \cap failed # {}
    /\ r_work \ failed # {}
    /\ \A l \in Leases : l \in lease_dirs /\ meta[l] # <<>>

C17_NoKinitWithoutPrincipal ==
    p_out # <<>> =>
        /\ get_machine_principal(p_in.host).first # 0
              => p_out[1].ret.first # 0 /\ p_out[1].kinit = <<>>
        /\ \A i \in 1..Len(p_out[1].kinit) :
              /\ get_machine_principal(p_in.host).first = 0
              /\ p_out[1].kinit[i] = get_machine_principal(p_in.host).second

\* C18: on success get_machine_principal returns exactly <short>$@<REALM>,
\* <short> the hostname before its first '.' cut to 15 characters and
\* <REALM> the host's realm name, with no quote character; cutting the name
\* warns and does not fail.
C18_PrincipalIsShortAtRealm ==
    \A i \in 1..Len(p_out) :
        LET short == Substr0(BeforeFirstDot(p_in.host.hostname), 15) IN
        /\ p_out[i].first = 0
              => /\ p_out[i].second = short \o <<"$", "@">> \o p_in.host.realm_name_result.second
                 /\ \A j \in 1..Len(p_out[i].second) : p_out[i].second[j] \notin {"'", "\""}
        /\ (p_in.host.status = 0 /\ p_in.host.realm_name_result.first = 0
               /\ p_in.host.domain_name_result.first = 0)
              => /\ p_out[i].first = 0
                 /\ p_out[i].warned = (Len(BeforeFirstDot(p_in.host.hostname)) > 15)

LookedUp(lookups) ==
    LET lines == Flatten(lookups) IN
    [k \in 1..Len(lines) |-> IF lines[k] = <<>> THEN <<>>
                             ELSE SubSeq(lines[k], 1, Len(lines[k]) - 1)]

InDomain(fqdn, domain_name) == Contains(ToLower(fqdn), ToLower(domain_name))

\* C20: the candidate list holds, in discovery order, every name of the
\* reverse lookups that contains the domain name (compared without regard to
\* case) and no other name, wherever in the lookup of its IP the name stands.
C20_EveryMatchingFqdnListed ==
    p_out # <<>> =>
        p_out[1].fqdn_list =
            SelectSeq(LookedUp(p_in.lookups), LAMBDA fqdn : InDomain(fqdn, p_in.domain_name))

Malformed(line) == Len(SplitLine(line)) # 2

\* the lines of the file that hold the key
LinesOf(config_file, name) ==
    SelectSeq(config_file, LAMBDA line : ~Malformed(line) /\ rtrim(SplitLine(line)[1]) = name)

\* C21: for a file with a malformed line, wherever it stands, the function
\* returns the empty string; for a well-formed file it returns the value of
\* the asked key when that is one of the three recognized keys.
C21_MalformedFileGivesEmpty ==
    p_out # <<>> =>
        LET lines == LinesOf(p_in.config_file, p_in.ecs_variable_name) IN
        IF \E i \in 1..Len(p_in.config_file) : Malformed(p_in.config_file[i])
        THEN p_out[1].value = <<>>
        ELSE IF lines # <<>> /\ p_in.ecs_variable_name # <<"ECS_CLUSTER">>
        THEN p_out[1].value = ltrim(SplitLine(lines[1])[2])
        ELSE p_out[1].value = <<>>

\* C22: for the same ticket and the same system time the classification is
\* the same whether klist prints its years with two digits or with four, and
\* output that matches neither pattern is never classified due.
C22_YearFormatIndependent ==
    /\ \A i \in 1..Len(p_out) : \A j \in 1..Len(p_out) : p_out[i].ready = p_out[j].ready
    /\ \A i \in 1..Len(p_out) : p_in.klist.kind = "no_krbtgt" => ~p_out[i].ready

\* C23: when the call goes on to the password extraction, the text handed
\* to find_password is the output of an ldapsearch run that exited 0,
\* whatever the order of succeeding and failing controllers.
C23_PasswordTextFromSuccessfulRun ==
    g_pc = "find" => \A w \in Worlds : g_ldap[w].first = 0

\* C24: the list the pass returns holds the cred-cache paths of exactly the
\* tickets it renewed: a step of the pass in which renew_gmsa_ticket
\* succeeds appends the ticket's path to the list, a step in which it fails
\* leaves the list as it was, and the return hands the list back unchanged.
C24_ReturnsRenewedPaths ==
    [][/\ \A t \in r_work' \ r_work :
             r_ret' = IF t \in failed' THEN r_ret ELSE Append(r_ret, t)
       /\ (r_pc = "pass" /\ r_pc' = "idle") => r_ret' = r_ret]_vars

\* C25: every byte written to the pipeline is read from inside the decoded
\* buffer, and a blob too short to hold the whole current_password field
\* makes the call fail without spawning the pipeline.
C25_ReadsInsideDecodedBlob ==
    p_out # <<>> =>
        /\ \A b \in p_out[1].read : b >= 0 /\ b < p_in.base64_decode_len
        /\ p_in.base64_decode_len < p_in.offset + 256
              => ~p_out[1].spawned /\ p_out[1].first # 0

====
